---- MODULE Spec2Model ----
(***************************************************************************)
(* Verification model of the tempo-map-to-beat-grid conversion of          *)
(* src/script.js: the tick-to-time integrator (ticksToSeconds), the        *)
(* tempo / time-signature normalisation and the beat scan of               *)
(* generateBeatList, the page's handlers handleParse and downloadXml, and  *)
(* the packaging functions buildLua, base64EncodeUnicode,                  *)
(* splitLuaIntoBase64Blocks and buildXmlWithLuaBase64.                     *)
(*                                                                         *)
(* JavaScript numbers are modelled as exact rationals [n, d] (d > 0, in    *)
(* lowest terms).  The input values of the model (BPM 120, 139.5, 140,     *)
(* 240000 and PPQ 1, 2, 480, 960) are ones where the double-precision      *)
(* results of the code round to the same millisecond and the same tick as  *)
(* the exact ones.                                                         *)
(***************************************************************************)
EXTENDS Integers, Sequences, FiniteSets, TLC

VARIABLES
    tsTempos,    \* ticksToSeconds: the `tempos` argument
    tsPpq,       \* ticksToSeconds: the `ppq` argument
    tsTick,      \* ticksToSeconds: the `ticks` argument of the last call
    tsSeconds,   \* ticksToSeconds: the value the last call returned
    tsCalled,    \* whether ticksToSeconds has been called yet
    midi,        \* generateBeatList: the parsed MIDI object it is given
    ppq,         \* generateBeatList: its local `ppq`
    tempos,      \* generateBeatList: its local `tempos`, after normalisation
    timeSigs,    \* generateBeatList: its local `timeSigs`, after normalisation
    maxTick,     \* generateBeatList: its local `maxTick`
    beats,       \* generateBeatList: the list it returned
    phase,       \* "input" before generateBeatList has run, "done" after
    selected,    \* fileRef.current.files[0]: the file of the file input
    midiLoaded,  \* whether the global Midi (the decoder library) is defined
    rows,        \* React state `rows`
    filename,    \* React state `filename`
    parsing,     \* React state `parsing`
    error,       \* React state `error`, <<>> for null
    totalBeats,  \* React state `totalBeats`
    pending,     \* the file whose read a suspended handleParse awaits
    download,    \* the file the last downloadXml handed to the browser
    attempt,     \* history: how the latest handleParse call went
    lastOk,      \* history: rows, filename, totalBeats of the last parse that
                 \* succeeded, and the name of the file it read
    luaString,   \* splitLuaIntoBase64Blocks: its `luaString` argument
    chunkSize,   \* splitLuaIntoBase64Blocks: its `chunkSize` argument
    blocks,      \* splitLuaIntoBase64Blocks: the list it returned
    packed,      \* whether splitLuaIntoBase64Blocks has been called yet
    xml          \* buildXmlWithLuaBase64: the document it returned

tsVars == <<tsTempos, tsPpq, tsTick, tsSeconds, tsCalled>>
genVars == <<midi, ppq, tempos, timeSigs, maxTick, beats, phase>>
uiVars == <<selected, midiLoaded, rows, filename, parsing, error, totalBeats,
            pending, download, attempt, lastOk>>
packVars == <<luaString, chunkSize, blocks, packed, xml>>

vars == <<tsTempos, tsPpq, tsTick, tsSeconds, tsCalled,
          midi, ppq, tempos, timeSigs, maxTick, beats, phase,
          selected, midiLoaded, rows, filename, parsing, error, totalBeats,
          pending, download, attempt, lastOk,
          luaString, chunkSize, blocks, packed, xml>>

----------------------------------------------------------------------------
(* The values the page's state has after construction (lines 39-46), and   *)
(* the values of the variables of a function that is not being called.     *)

NoMidi == [absent |-> TRUE]

\* no file: fileRef.current?.files?.[0] is undefined
NoFile == [present |-> FALSE, name |-> <<>>, decodes |-> FALSE, midi |-> NoMidi]
NoDownload == [present |-> FALSE, name |-> <<>>, safeName |-> <<>>, entries |-> <<>>]
NoAttempt == [kind |-> "none", message |-> "", generated |-> FALSE]
NoLastOk ==
    [present |-> FALSE, rows |-> <<>>, filename |-> <<>>, totalBeats |-> 0, source |-> <<>>]
\* buildXmlWithLuaBase64 has not returned a document
NoXml == [present |-> FALSE, name |-> <<>>, size |-> 0, blockElements |-> <<>>]

\* useState([]), useState(""), useState(false), useState(null), useState(0)
UiConstructed ==
    /\ rows = <<>>
    /\ filename = <<>>
    /\ parsing = FALSE
    /\ error = <<>>
    /\ totalBeats = 0
    /\ pending = NoFile
    /\ download = NoDownload
    /\ attempt = NoAttempt
    /\ lastOk = NoLastOk

UiUnused ==
    /\ UiConstructed
    /\ selected = NoFile
    /\ midiLoaded = TRUE

PackUnused ==
    /\ luaString = <<>>
    /\ chunkSize = 0
    /\ blocks = <<>>
    /\ packed = FALSE
    /\ xml = NoXml

TicksUnused ==
    /\ tsTempos = <<>>
    /\ tsPpq = 0
    /\ tsTick = 0
    /\ tsSeconds = [n |-> 0, d |-> 1]
    /\ tsCalled = FALSE

----------------------------------------------------------------------------
(* Exact rational arithmetic standing for JavaScript's Number.             *)

Min(a, b) == IF a <= b THEN a ELSE b
Abs(a) == IF a < 0 THEN -a ELSE a

RECURSIVE GCD(_, _)
GCD(a, b) == IF b = 0 THEN a ELSE GCD(b, a % b)

\* the rational n/d (d # 0) in lowest terms with a positive denominator
Rat(n, d) ==
    LET g == GCD(Abs(n), Abs(d))
        s == IF d < 0 THEN -1 ELSE 1
    IN  [n |-> s * (n \div g), d |-> s * (d \div g)]

Zero == [n |-> 0, d |-> 1]
RatOfInt(k) == [n |-> k, d |-> 1]
RatAdd(a, b) == Rat(a.n * b.d + b.n * a.d, a.d * b.d)
RatMul(a, b) == Rat(a.n * b.n, a.d * b.d)
RatDiv(a, b) == Rat(a.n * b.d, a.d * b.n)
RatLE(a, b) == a.n * b.d <= b.n * a.d
\* Math.round: the nearest integer, a half rounded towards +infinity
MathRound(a) == (2 * a.n + a.d) \div (2 * a.d)
\* Math.ceil
MathCeil(a) == -((-a.n) \div a.d)

----------------------------------------------------------------------------
(* ticksToSeconds(ticks, tempos, ppq), src/script.js:104-119.              *)

\* the loop with one of its steps left out (the mutants below)
RECURSIVE ticksToSecondsVariant(_, _, _, _, _, _, _, _)
ticksToSecondsVariant(i, seconds, ticks, tmps, q, truncate, accumulate, perTick) ==
    IF i > Len(tmps) THEN seconds
    ELSE
      LET cur == tmps[i]
          hasNext == i + 1 <= Len(tmps)
          start == cur.ticks
      IN  IF ticks <= start THEN seconds
          ELSE
            LET segEnd == IF hasNext
                          THEN (IF truncate THEN Min(tmps[i + 1].ticks, ticks) ELSE tmps[i + 1].ticks)
                          ELSE ticks
                segTicks == segEnd - start
                usPerQuarter == RatDiv(RatOfInt(60000000), RatOfInt(cur.bpm))
                secPerQuarter == RatDiv(usPerQuarter, RatOfInt(1000000))
                secPerTick == IF perTick THEN RatDiv(secPerQuarter, RatOfInt(q)) ELSE secPerQuarter
                segSeconds == RatMul(RatOfInt(segTicks), secPerTick)
                seconds2 == IF accumulate THEN RatAdd(seconds, segSeconds) ELSE segSeconds
            IN  IF ~hasNext \/ ticks <= tmps[i + 1].ticks THEN seconds2
                ELSE ticksToSecondsVariant(i + 1, seconds2, ticks, tmps, q,
                                           truncate, accumulate, perTick)

\* the body of the for loop, from index i (1-based) with `seconds` so far
RECURSIVE ticksToSecondsLoop(_, _, _, _, _)
ticksToSecondsLoop(i, seconds, ticks, tmps, q) ==
    IF i > Len(tmps) THEN seconds
    ELSE
      LET cur == tmps[i]
          hasNext == i + 1 <= Len(tmps)
          start == cur.ticks
      IN  IF ticks <= start THEN seconds
          ELSE
            LET segEnd == IF hasNext THEN Min(tmps[i + 1].ticks, ticks) ELSE ticks
                segTicks == segEnd - start
                usPerQuarter == RatDiv(RatOfInt(60000000), RatOfInt(cur.bpm))
                secPerTick == RatDiv(RatDiv(usPerQuarter, RatOfInt(1000000)), RatOfInt(q))
                seconds2 == RatAdd(seconds, RatMul(RatOfInt(segTicks), secPerTick))
            IN  IF ~hasNext \/ ticks <= tmps[i + 1].ticks THEN seconds2
                ELSE ticksToSecondsLoop(i + 1, seconds2, ticks, tmps, q)

\* mutant: the final partial segment is not truncated to `ticks`
ticksToSecondsNoTrunc(ticks, tmps, q) ==
    ticksToSecondsVariant(1, Zero, ticks, tmps, q, FALSE, TRUE, TRUE)

\* mutant: `seconds = ...` instead of `seconds += ...`
ticksToSecondsNoAccumulate(ticks, tmps, q) ==
    ticksToSecondsVariant(1, Zero, ticks, tmps, q, TRUE, FALSE, TRUE)

\* mutant: the division by ppq is forgotten
ticksToSecondsNoPpq(ticks, tmps, q) ==
    ticksToSecondsVariant(1, Zero, ticks, tmps, q, TRUE, TRUE, FALSE)

ticksToSeconds(ticks, tmps, q) == ticksToSecondsLoop(1, Zero, ticks, tmps, q)

----------------------------------------------------------------------------
(* The inputs of the integrator specification.                             *)

MaxSegments == 3       \* tempo entries of a normalized sequence
MaxTempoTick == 4      \* the latest tick of a tempo entry
MaxTargetTick == 6     \* the latest tick ticksToSeconds is asked about
SmallBpms == {120, 140}
SmallPpqs == {1, 2}

\* sorted by tick (equal ticks allowed), first entry at tick 0, bpm > 0
NormalizedTempos ==
    { s \in UNION { [1..k -> [ticks : 0..MaxTempoTick, bpm : SmallBpms]] : k \in 1..MaxSegments } :
        /\ s[1].ticks = 0
        /\ \A i \in 1..(Len(s) - 1) : s[i].ticks <= s[i + 1].ticks }


TicksInit ==
    /\ tsTempos \in NormalizedTempos
    /\ tsPpq \in SmallPpqs
    /\ tsTick = 0
    /\ tsSeconds = Zero
    /\ tsCalled = FALSE
    /\ midi = NoMidi
    /\ ppq = 0
    /\ tempos = <<>>
    /\ timeSigs = <<>>
    /\ maxTick = 0
    /\ beats = <<>>
    /\ phase = "idle"
    /\ UiUnused
    /\ PackUnused

\* the call ticksToSeconds(t, tempos, ppq) of a behaviour
Integrate ==
    /\ ~tsCalled
    /\ \E t \in 0..MaxTargetTick :
          /\ tsTick' = t
          /\ tsSeconds' = ticksToSeconds(t, tsTempos, tsPpq)
    /\ tsCalled' = TRUE
    /\ UNCHANGED <<tsTempos, tsPpq, genVars, uiVars, packVars>>

TicksNext == Integrate

SpecTicks == TicksInit /\ [][TicksNext]_vars

----------------------------------------------------------------------------
(* Claims about ticksToSeconds, checked under SpecTicks.                   *)

\* C1: for a normalized tempo sequence and ppq > 0, ticksToSeconds is
\* non-decreasing in its tick argument: the value returned for tsTick is at
\* most the value returned for every later tick t2.
C1_NonDecreasing ==
    tsCalled =>
        \A t2 \in 0..MaxTargetTick :
            tsTick < t2 => RatLE(tsSeconds, ticksToSeconds(t2, tsTempos, tsPpq))

\* a call has been made past two tempo changes, the later tempo being the faster
C1_Witness ==
    /\ tsCalled
    /\ Len(tsTempos) = 3
    /\ 0 < tsTempos[2].ticks
    /\ tsTempos[2].ticks < tsTempos[3].ticks
    /\ tsTempos[3].ticks < tsTick
    /\ tsTick < MaxTargetTick
    /\ tsTempos[1].bpm < tsTempos[3].bpm

\* the reference sum of C2: over the segments that start before T,
\* (min(segment end, T) - segment start) * 60 / (bpm * ppq)
RECURSIVE RefSecondsFrom(_, _, _, _)
RefSecondsFrom(i, T, tmps, q) ==
    IF i > Len(tmps) THEN Zero
    ELSE
      LET segStart == tmps[i].ticks
          segEnd == IF i < Len(tmps) THEN Min(tmps[i + 1].ticks, T) ELSE T
          term == IF segStart < T
                  THEN Rat((segEnd - segStart) * 60, tmps[i].bpm * q)
                  ELSE Zero
      IN  RatAdd(term, RefSecondsFrom(i + 1, T, tmps, q))

\* the cumulative sum of the full segments 1..i-1
RECURSIVE FullSegments(_, _, _)
FullSegments(i, tmps, q) ==
    IF i <= 1 THEN Zero
    ELSE RatAdd(FullSegments(i - 1, tmps, q),
                Rat((tmps[i].ticks - tmps[i - 1].ticks) * 60, tmps[i - 1].bpm * q))

\* C2: ticksToSeconds(T) equals the reference sum over the tempo segments
\* that start before T, the last one truncated at T; at T = tempos[i].ticks it
\* is the cumulative sum of the full segments before i, and it is 0 at T = 0.
C2_ReferenceSum ==
    tsCalled =>
        /\ tsSeconds = RefSecondsFrom(1, tsTick, tsTempos, tsPpq)
        /\ tsTick = 0 => tsSeconds = Zero
        /\ \A i \in 1..Len(tsTempos) :
              tsTick = tsTempos[i].ticks => tsSeconds = FullSegments(i, tsTempos, tsPpq)

\* a call that ends inside the second of three segments of different tempo
C2_Witness ==
    /\ tsCalled
    /\ Len(tsTempos) = 3
    /\ 0 < tsTempos[2].ticks
    /\ tsTempos[2].ticks < tsTick
    /\ tsTick < tsTempos[3].ticks
    /\ tsTempos[1].bpm # tsTempos[2].bpm
    /\ tsSeconds # Zero

----------------------------------------------------------------------------
(* generateBeatList(midi), src/script.js:121-192.                          *)
(*                                                                         *)
(* A parsed MIDI object is                                                 *)
(*   [header |-> [ppq, ppqn, tempos, timeSignatures], tracks, duration]    *)
(* where ppq / ppqn are 0 when the property is undefined or zero (both are *)
(* falsy), an optional list is [present |-> BOOLEAN, list |-> Seq], and    *)
(* duration is [present |-> BOOLEAN, value |-> rational seconds].          *)

\* mutant: a sort that is not stable, an event going before its equals
RECURSIVE InsertByTicksBeforeEqual(_, _)
InsertByTicksBeforeEqual(sorted, e) ==
    IF sorted = <<>> THEN <<e>>
    ELSE IF sorted[Len(sorted)].ticks < e.ticks THEN Append(sorted, e)
    ELSE Append(InsertByTicksBeforeEqual(SubSeq(sorted, 1, Len(sorted) - 1), e),
                sorted[Len(sorted)])

\* Array.prototype.sort((a, b) => a.ticks - b.ticks): stable, ascending
RECURSIVE InsertByTicks(_, _)
InsertByTicks(sorted, e) ==
    IF sorted = <<>> THEN <<e>>
    ELSE IF sorted[Len(sorted)].ticks <= e.ticks THEN Append(sorted, e)
    ELSE Append(InsertByTicks(SubSeq(sorted, 1, Len(sorted) - 1), e), sorted[Len(sorted)])

RECURSIVE SortByTicksFrom(_, _, _)
SortByTicksFrom(s, i, acc) ==
    IF i > Len(s) THEN acc ELSE SortByTicksFrom(s, i + 1, InsertByTicks(acc, s[i]))

SortByTicks(s) == SortByTicksFrom(s, 1, <<>>)

\* `x || []` on an optional list
OrEmpty(opt) == IF opt.present THEN opt.list ELSE <<>>

\* const ppq = midi.header.ppq || midi.header.ppqn || 480
ppqOf(m) ==
    IF m.header.ppq # 0 THEN m.header.ppq
    ELSE IF m.header.ppqn # 0 THEN m.header.ppqn
    ELSE 480

\* mutant: no synthetic entry at tick 0
temposOfNoUnshift(m) ==
    LET raw == OrEmpty(m.header.tempos)
        mapped == [i \in 1..Len(raw) |-> [ticks |-> raw[i].ticks, bpm |-> MathRound(raw[i].bpm)]]
        sorted == SortByTicks(mapped)
    IN  IF Len(sorted) = 0 THEN <<[ticks |-> 0, bpm |-> 120]>> ELSE sorted

\* mutant: the synthetic tick-0 entry carries 120 BPM, not the earliest BPM
temposOfUnshiftDefault(m) ==
    LET raw == OrEmpty(m.header.tempos)
        mapped == [i \in 1..Len(raw) |-> [ticks |-> raw[i].ticks, bpm |-> MathRound(raw[i].bpm)]]
        sorted == SortByTicks(mapped)
        filled == IF Len(sorted) = 0 THEN <<[ticks |-> 0, bpm |-> 120]>> ELSE sorted
    IN  IF filled[1].ticks # 0
        THEN <<[ticks |-> 0, bpm |-> 120]>> \o filled
        ELSE filled

\* mutant: no default entry for an empty list
temposOfNoDefault(m) ==
    LET raw == OrEmpty(m.header.tempos)
        mapped == [i \in 1..Len(raw) |-> [ticks |-> raw[i].ticks, bpm |-> MathRound(raw[i].bpm)]]
        sorted == SortByTicks(mapped)
    IN  IF Len(sorted) > 0 /\ sorted[1].ticks # 0
        THEN <<[ticks |-> 0, bpm |-> sorted[1].bpm]>> \o sorted
        ELSE sorted

\* lines 124-128: map (Math.round of the bpm), sort, default, tick-0 entry
temposOf(m) ==
    LET raw == OrEmpty(m.header.tempos)
        mapped == [i \in 1..Len(raw) |-> [ticks |-> raw[i].ticks, bpm |-> MathRound(raw[i].bpm)]]
        sorted == SortByTicks(mapped)
        filled == IF Len(sorted) = 0 THEN <<[ticks |-> 0, bpm |-> 120]>> ELSE sorted
    IN  IF filled[1].ticks # 0
        THEN <<[ticks |-> 0, bpm |-> filled[1].bpm]>> \o filled
        ELSE filled

\* lines 130-133: map, sort, default 4/4; no entry is added at tick 0
timeSigsOf(m) ==
    LET raw == OrEmpty(m.header.timeSignatures)
        mapped == [i \in 1..Len(raw) |->
                     [ticks |-> raw[i].ticks,
                      numerator |-> raw[i].timeSignature[1],
                      denominator |-> raw[i].timeSignature[2]]]
        sorted == SortByTicks(mapped)
    IN  IF Len(sorted) = 0
        THEN <<[ticks |-> 0, numerator |-> 4, denominator |-> 4]>>
        ELSE sorted

\* lines 135-138: the largest note tick over all tracks, starting from 0
RECURSIVE maxNoteTickFrom(_, _, _, _)
maxNoteTickFrom(tracks, t, n, acc) ==
    IF t > Len(tracks) THEN acc
    ELSE IF ~tracks[t].notes.present \/ n > Len(tracks[t].notes.list)
         THEN maxNoteTickFrom(tracks, t + 1, 1, acc)
    ELSE LET nt == tracks[t].notes.list[n].ticks
         IN  maxNoteTickFrom(tracks, t, n + 1, IF nt > acc THEN nt ELSE acc)

\* lines 135-143: maxTick, from the notes or else from the duration
maxTickOf(m, tmps, q) ==
    LET fromNotes == maxNoteTickFrom(m.tracks, 1, 1, 0)
    IN  IF fromNotes = 0 /\ m.duration.present
        THEN LET secondsPerTick ==
                   RatDiv(RatDiv(RatDiv(RatOfInt(60000000), RatOfInt(tmps[1].bpm)),
                                 RatOfInt(1000000)), RatOfInt(q))
             IN  MathCeil(RatDiv(m.duration.value, secondsPerTick))
        ELSE fromNotes

\* lines 145-151
RECURSIVE getTempoAtTickFrom(_, _, _, _)
getTempoAtTickFrom(i, last, tick, tmps) ==
    IF i > Len(tmps) THEN last
    ELSE IF tmps[i].ticks <= tick THEN getTempoAtTickFrom(i + 1, tmps[i], tick, tmps)
    ELSE last

\* mutant: a tempo event takes effect only after its tick
RECURSIVE getTempoAtTickStrictFrom(_, _, _, _)
getTempoAtTickStrictFrom(i, last, tick, tmps) ==
    IF i > Len(tmps) THEN last
    ELSE IF tmps[i].ticks < tick THEN getTempoAtTickStrictFrom(i + 1, tmps[i], tick, tmps)
    ELSE last

getTempoAtTickStrict(tick, tmps) == getTempoAtTickStrictFrom(2, tmps[1], tick, tmps).bpm

getTempoAtTick(tick, tmps) == getTempoAtTickFrom(2, tmps[1], tick, tmps).bpm

\* lines 153-159
RECURSIVE getTimeSigForTickFrom(_, _, _, _)
getTimeSigForTickFrom(i, last, tick, sigs) ==
    IF i > Len(sigs) THEN last
    ELSE IF sigs[i].ticks <= tick THEN getTimeSigForTickFrom(i + 1, sigs[i], tick, sigs)
    ELSE last

getTimeSigForTick(tick, sigs) == getTimeSigForTickFrom(2, sigs[1], tick, sigs)

\* mutant: measures are counted from tick 0 whatever the time signatures
lastTsTickFromZero(j, lastTsTick, tick, sigs) == 0

\* lines 173-174: the tick of the last time signature at or before `tick`
RECURSIVE lastTsTickFrom(_, _, _, _)
lastTsTickFrom(j, lastTsTick, tick, sigs) ==
    IF j > Len(sigs) THEN lastTsTick
    ELSE IF sigs[j].ticks <= tick THEN lastTsTickFrom(j + 1, sigs[j].ticks, tick, sigs)
    ELSE lastTsTick

\* mutant: the scan bound without the four trailing indices
lastBeatIndexOfNoPad(mt, q) == MathCeil(Rat(mt, q))

\* mutant: the scan bound with eight trailing indices
lastBeatIndexOfWide(mt, q) == MathCeil(Rat(mt, q)) + 8

\* line 164
lastBeatIndexOf(mt, q) == MathCeil(Rat(mt, q)) + 4

\* lines 166-168: whether the scan breaks at index i
scanBreaksAt(i, q, sigs, mt) ==
    i * q > mt + q * getTimeSigForTick(i * q, sigs).numerator

\* lines 165-168: the number of iterations that push a beat; i runs from 0
\* to lastBeatIndex and the loop ends at the first index where it breaks
scanLength(q, sigs, mt) ==
    LET breaks == { i \in 0..lastBeatIndexOf(mt, q) : scanBreaksAt(i, q, sigs, mt) }
    IN  IF breaks = {} THEN lastBeatIndexOf(mt, q) + 1
        ELSE CHOOSE i \in breaks : \A j \in breaks : i <= j

\* lines 166, 169-188: the beat pushed at index i; prevTempo, <<>> for null,
\* is the currentTempo of the iteration before
beatAt(i, q, tmps, sigs) ==
    LET tick == i * q
        tsig == getTimeSigForTick(tick, sigs)
        seconds == ticksToSeconds(tick, tmps, q)
        ms == MathRound(RatMul(seconds, RatOfInt(1000)))
        lastTsTick == lastTsTickFrom(1, 0, tick, sigs)
        beatsSinceTs == (tick - lastTsTick) \div q
        measureBeatNumber == (beatsSinceTs % tsig.numerator) + 1
        downbeat == IF measureBeatNumber = 1 THEN 1 ELSE 0
        currentTempo == getTempoAtTick(tick, tmps)
        prevTempo == IF i = 0 THEN <<>> ELSE <<getTempoAtTick((i - 1) * q, tmps)>>
        tempoChanged == prevTempo = <<>> \/ currentTempo # prevTempo[1]
    IN  [tick |-> tick, ms |-> ms, downbeat |-> downbeat,
         tempoAtTick |-> IF tempoChanged THEN currentTempo ELSE 0]

\* lines 121-192; the loop of lines 165-189 pushes the beats of the indices
\* 0 .. scanLength - 1 in order
generateBeatList(m) ==
    LET q == ppqOf(m)
        tmps == temposOf(m)
        sigs == timeSigsOf(m)
        mt == maxTickOf(m, tmps, q)
    IN  [i \in 1..scanLength(q, sigs, mt) |-> beatAt(i - 1, q, tmps, sigs)]

\* whether the call ends in a TypeError: tempos[0] (lines 128, 141, 146) and
\* the time signature whose numerator line 176 reads are undefined exactly
\* when the normalised list is empty; the reads of header.tempos,
\* header.timeSignatures and track.notes are guarded (lines 124, 130, 137)
generateBeatListThrows(m) ==
    \/ Len(temposOf(m)) = 0
    \/ Len(timeSigsOf(m)) = 0

----------------------------------------------------------------------------
(* The inputs of the generator specification.                              *)

MaxTempoEvents == 2      \* tempo events of an input
MaxTimeSigEvents == 2    \* time-signature events of an input

SeqsUpTo(S, k) == UNION { [1..n -> S] : n \in 0..k }
Present(l) == [present |-> TRUE, list |-> l]
Absent == [present |-> FALSE, list |-> <<>>]
Tempo(t, b) == [ticks |-> t, bpm |-> Rat(b, 1)]
TimeSig(t, n, d) == [ticks |-> t, timeSignature |-> <<n, d>>]
Notes(ticks) == [notes |-> Present([i \in 1..Len(ticks) |-> [ticks |-> ticks[i]]])]

\* <<header.ppq, header.ppqn>>, 0 for undefined
Headers == { <<480, 0>>, <<0, 960>>, <<0, 0>> }
TempoTicks == {0, 720, 1920}
RawBpms == { Rat(120, 1), Rat(279, 2), Rat(140, 1) }
TimeSigTicks == {0, 1440}
TimeSignatures == { <<3, 4>>, <<4, 4>>, <<6, 8>> }
TrackLists ==
    { <<>>,
      <<[notes |-> Absent], Notes(<<>>)>>,
      <<Notes(<<0>>)>>,
      <<Notes(<<7680>>)>>,
      <<Notes(<<480>>), [notes |-> Absent], Notes(<<1000, 0>>)>> }
Durations == { [present |-> FALSE, value |-> Zero],
               [present |-> TRUE, value |-> Rat(11, 5)] }

TempoLists ==
    {Absent} \cup { Present(l) : l \in SeqsUpTo([ticks : TempoTicks, bpm : RawBpms], MaxTempoEvents) }
TimeSigLists ==
    {Absent} \cup { Present(l) :
        l \in SeqsUpTo([ticks : TimeSigTicks, timeSignature : TimeSignatures], MaxTimeSigEvents) }

\* the tempo lists every time-signature list is combined with
SampleTempoLists ==
    { Present(<<Tempo(0, 120)>>),
      Present(<<[ticks |-> 720, bpm |-> Rat(279, 2)]>>) }
\* the time-signature lists every tempo list is combined with
SampleTimeSigLists == { Absent }

\* tempo lists with a tempo at which a beat lasts a quarter of a millisecond
\* (250 microseconds per quarter note)
ExtremeTempoLists ==
    { Present(<<Tempo(0, 240000)>>),
      Present(<<Tempo(0, 120), Tempo(720, 240000)>>) }

\* tempo lists and time-signature lists with two events on one tick
DuplicateTempoLists ==
    { Present(<<Tempo(720, 120), Tempo(720, 140)>>),
      Present(<<Tempo(0, 140), Tempo(0, 120)>>) }
DuplicateTimeSigLists ==
    { Present(<<TimeSig(1440, 3, 4), TimeSig(1440, 4, 4)>>),
      Present(<<TimeSig(0, 6, 8), TimeSig(0, 3, 4)>>) }

MidiOf(h, tl, sl, tr, d) ==
    [header |-> [ppq |-> h[1], ppqn |-> h[2], tempos |-> tl, timeSignatures |-> sl],
     tracks |-> tr, duration |-> d]

\* every tempo list and every time-signature list, with every header, track
\* list and duration; the extreme tempo lists with every header and track list;
\* the lists with duplicate ticks with each other
MidiInputs ==
    { MidiOf(h, tl, sl, tr, d) :
        h \in Headers, tl \in TempoLists, sl \in SampleTimeSigLists,
        tr \in TrackLists, d \in Durations }
    \cup
    { MidiOf(h, tl, sl, tr, d) :
        h \in Headers, tl \in SampleTempoLists, sl \in TimeSigLists,
        tr \in TrackLists, d \in Durations }
    \cup
    { MidiOf(h, tl, Absent, tr, [present |-> FALSE, value |-> Zero]) :
        h \in Headers, tl \in ExtremeTempoLists, tr \in TrackLists }
    \cup
    { MidiOf(h, tl, sl, tr, d) :
        h \in Headers, tl \in DuplicateTempoLists, sl \in DuplicateTimeSigLists,
        tr \in TrackLists, d \in Durations }

GenInit ==
    /\ midi \in MidiInputs
    /\ ppq = 0
    /\ tempos = <<>>
    /\ timeSigs = <<>>
    /\ maxTick = 0
    /\ beats = <<>>
    /\ phase = "input"
    /\ TicksUnused
    /\ UiUnused
    /\ PackUnused

\* one call generateBeatList(midi): it returns ("done") or throws ("threw")
GenerateBeatList ==
    /\ phase = "input"
    /\ ppq' = ppqOf(midi)
    /\ tempos' = temposOf(midi)
    /\ timeSigs' = timeSigsOf(midi)
    /\ IF generateBeatListThrows(midi)
       THEN /\ maxTick' = 0
            /\ beats' = <<>>
            /\ phase' = "threw"
       ELSE /\ maxTick' = maxTickOf(midi, temposOf(midi), ppqOf(midi))
            /\ beats' = generateBeatList(midi)
            /\ phase' = "done"
    /\ UNCHANGED <<midi, tsVars, uiVars, packVars>>

GenNext == GenerateBeatList

SpecGen == GenInit /\ [][GenNext]_vars

----------------------------------------------------------------------------
(* Claims about generateBeatList, checked under SpecGen.  The reference    *)
(* notions below are read off the raw input lists, not the normalised ones. *)

RawTempos == OrEmpty(midi.header.tempos)
RawTimeSigs == OrEmpty(midi.header.timeSignatures)

\* the event with the smallest tick, the first of them in input order
EarliestIdx(raw) ==
    CHOOSE i \in 1..Len(raw) :
        \A j \in 1..Len(raw) :
            raw[i].ticks < raw[j].ticks \/ (raw[i].ticks = raw[j].ticks /\ i <= j)

AtOrBefore(raw, tick) == { i \in 1..Len(raw) : raw[i].ticks <= tick }

\* the latest event at or before `tick`, the last of them in input order
LatestIdx(raw, tick) ==
    CHOOSE i \in AtOrBefore(raw, tick) :
        \A j \in AtOrBefore(raw, tick) :
            raw[j].ticks < raw[i].ticks \/ (raw[j].ticks = raw[i].ticks /\ j <= i)

\* the event in force at `tick`: the latest at or before it, else the earliest
ActiveIdx(raw, tick) ==
    IF AtOrBefore(raw, tick) = {} THEN EarliestIdx(raw) ELSE LatestIdx(raw, tick)

\* the BPM in force at `tick`, as an integer (the normalisation rounds it)
ActiveBpm(tick) ==
    IF RawTempos = <<>> THEN 120
    ELSE MathRound(RawTempos[ActiveIdx(RawTempos, tick)].bpm)

ActiveNumerator(tick) ==
    IF RawTimeSigs = <<>> THEN 4
    ELSE RawTimeSigs[ActiveIdx(RawTimeSigs, tick)].timeSignature[1]

\* the tick of the latest time-signature change at or before `tick`, else 0
LastChangeTick(tick) ==
    IF AtOrBefore(RawTimeSigs, tick) = {} THEN 0
    ELSE RawTimeSigs[LatestIdx(RawTimeSigs, tick)].ticks

IsSortedByTicks(s) == \A i \in 1..(Len(s) - 1) : s[i].ticks <= s[i + 1].ticks

\* C3 (as claimed): after normalisation both the tempo sequence and the
\* time-signature sequence are sorted by tick and start at tick 0.
C3_BothStartAtTickZero ==
    phase = "done" =>
        /\ IsSortedByTicks(tempos)
        /\ tempos[1].ticks = 0
        /\ IsSortedByTicks(timeSigs)
        /\ timeSigs[1].ticks = 0

\* C4: no undefined region before the first explicit event.  A beat before
\* the earliest tempo event is timed and annotated with that event's BPM
\* (120 without tempo events); a beat before the earliest time-signature
\* event has that event's numerator (4 without events), measures counted
\* from tick 0.
C4_NoGapBeforeFirstEvent ==
    phase = "done" =>
        \A i \in 1..Len(beats) :
            LET b == beats[i]
                firstBpm == IF RawTempos = <<>> THEN 120
                            ELSE MathRound(RawTempos[EarliestIdx(RawTempos)].bpm)
                firstNum == IF RawTimeSigs = <<>> THEN 4
                            ELSE RawTimeSigs[EarliestIdx(RawTimeSigs)].timeSignature[1]
            IN  /\ (RawTempos = <<>> \/ AtOrBefore(RawTempos, b.tick) = {}) =>
                      /\ getTempoAtTick(b.tick, tempos) = firstBpm
                      /\ b.ms = MathRound(Rat(b.tick * 60000, firstBpm * ppq))
                      /\ b.tempoAtTick = (IF i = 1 THEN firstBpm ELSE 0)
                /\ (RawTimeSigs = <<>> \/ AtOrBefore(RawTimeSigs, b.tick) = {}) =>
                      /\ getTimeSigForTick(b.tick, timeSigs).numerator = firstNum
                      /\ b.downbeat = (IF (b.tick \div ppq) % firstNum = 0 THEN 1 ELSE 0)

\* a grid with a beat after tick 0 that lies before the first tempo event and
\* before the first time-signature event
C4_Witness ==
    /\ phase = "done"
    /\ RawTempos # <<>>
    /\ RawTimeSigs # <<>>
    /\ Len(beats) >= 3
    /\ AtOrBefore(RawTempos, beats[2].tick) = {}
    /\ AtOrBefore(RawTimeSigs, beats[3].tick) = {}
    /\ RawTimeSigs[EarliestIdx(RawTimeSigs)].timeSignature[1] # 4

C7_DownbeatPosition ==
    phase = "done" =>
        \A i \in 1..Len(beats) :
            LET b == beats[i]
                s == LastChangeTick(b.tick)
                n == ActiveNumerator(b.tick)
            IN  /\ b.downbeat \in {0, 1}
                /\ b.downbeat = 1 <=> ((b.tick - s) \div ppq) % n = 0
                /\ (\E j \in 1..Len(RawTimeSigs) : RawTimeSigs[j].ticks = b.tick) =>
                      b.downbeat = 1

\* a beat on a time-signature change that is a downbeat only because the
\* measure count restarts there, followed by a beat that is not a downbeat
C7_Witness ==
    /\ phase = "done"
    /\ \E i \in 2..(Len(beats) - 1) :
          /\ \E j \in 1..Len(RawTimeSigs) : RawTimeSigs[j].ticks = beats[i].tick
          /\ beats[i].downbeat = 1
          /\ (beats[i].tick \div ppq) % ActiveNumerator(beats[i].tick) # 0
          /\ beats[i + 1].downbeat = 0

\* the input of C8: constant 120 BPM, constant 4/4, PPQ 480, one note at 480*16
IsRoundTripInput ==
    /\ ppqOf(midi) = 480
    /\ RawTempos = <<Tempo(0, 120)>>
    /\ RawTimeSigs = <<TimeSig(0, 4, 4)>>
    /\ midi.tracks = <<Notes(<<480 * 16>>)>>

\* C8: for that input beat i is at exactly 500 * i ms, the downbeats are the
\* indices 0, 4, 8, ..., only beat 0 has a non-zero tempo annotation, and the
\* grid reaches the note.
C8_RoundTrip ==
    (phase = "done" /\ IsRoundTripInput) =>
        /\ Len(beats) > 16
        /\ \A i \in 1..Len(beats) :
              /\ beats[i].ms = 500 * (i - 1)
              /\ beats[i].downbeat = (IF (i - 1) % 4 = 0 THEN 1 ELSE 0)
              /\ beats[i].tempoAtTick = (IF i = 1 THEN 120 ELSE 0)

C8_Witness ==
    /\ phase = "done"
    /\ IsRoundTripInput
    /\ Len(beats) = 21
    /\ beats[21].ms = 10000

\* C9 (as claimed): the grid holds every PPQ-spaced position with
\* tick <= maxTick + ppq * n, n the numerator active at the end of the piece.
C9_FullTrailingMeasure ==
    phase = "done" =>
        LET n == ActiveNumerator(maxTick)
        IN  \A k \in 0..((maxTick \div ppq) + n) :
                k * ppq <= maxTick + ppq * n =>
                    \E i \in 1..Len(beats) : beats[i].tick = k * ppq

IsEmptyInput ==
    /\ RawTempos = <<>>
    /\ RawTimeSigs = <<>>
    /\ ~midi.duration.present
    /\ \A t \in 1..Len(midi.tracks) : OrEmpty(midi.tracks[t].notes) = <<>>

\* C11: an empty input yields at least 5 beats, the beats of index 0..4 at
\* ticks i * ppq (0, 480, 960, 1440, 1920 when the header gives no PPQ), at
\* 0, 500, 1000, 1500, 2000 ms, with downbeats at the indices 0 and 4 only.
C11_EmptyInputGrid ==
    (phase = "done" /\ IsEmptyInput) =>
        /\ Len(beats) >= 5
        /\ \A i \in 1..5 :
              /\ beats[i].tick = (i - 1) * ppq
              /\ (midi.header.ppq = 0 /\ midi.header.ppqn = 0) =>
                    beats[i].tick = <<0, 480, 960, 1440, 1920>>[i]
              /\ beats[i].ms = <<0, 500, 1000, 1500, 2000>>[i]
              /\ beats[i].downbeat = (IF i \in {1, 5} THEN 1 ELSE 0)

\* the grid of an input whose header gives no PPQ and whose tracks hold no note
C11_Witness ==
    /\ phase = "done"
    /\ IsEmptyInput
    /\ midi.header.ppq = 0
    /\ midi.header.ppqn = 0
    /\ Len(midi.tracks) = 2
    /\ Len(beats) >= 5
    /\ beats[5].tick = 1920
    /\ beats[5].ms = 2000

\* C12: the scan ends, and its output is the contiguous grid positions
\* i * ppq for i = 0..k, in increasing order and without gaps, with
\* k <= ceil(maxTick / ppq) + 4; no emitted candidate exceeds maxTick plus
\* ppq times the numerator active at it, and the scan stopped either at the
\* index bound or at the first candidate that does.
C12_ContiguousBoundedGrid ==
    phase = "done" =>
        LET k == Len(beats) - 1
            bound == MathCeil(Rat(maxTick, ppq)) + 4
            Exceeds(i) == i * ppq > maxTick + ppq * ActiveNumerator(i * ppq)
        IN  /\ \A i \in 0..k : beats[i + 1].tick = i * ppq
            /\ \A i \in 1..k : beats[i].tick < beats[i + 1].tick
            /\ k <= bound
            /\ \A i \in 0..k : ~Exceeds(i)
            /\ k < bound => Exceeds(k + 1)

\* a scan that stopped before its index bound, on the first candidate past
\* the pad of a 3/4 measure
C12_Witness ==
    /\ phase = "done"
    /\ maxTick > 0
    /\ Len(beats) - 1 < MathCeil(Rat(maxTick, ppq)) + 4
    /\ Len(beats) * ppq > maxTick + ppq * ActiveNumerator(Len(beats) * ppq)
    /\ ActiveNumerator(Len(beats) * ppq) = 3

\* C13 (as claimed): the timestamps of consecutive beats strictly increase,
\* ms(i) < ms(i+1), for every tempo map with positive BPM values.
C13_StrictlyIncreasing ==
    phase = "done" =>
        \A i \in 1..(Len(beats) - 1) : beats[i].ms < beats[i + 1].ms

\* the BPM values of the input all round to at most `b`
AllBpmAtMost(b) ==
    \A j \in 1..Len(RawTempos) : MathRound(RawTempos[j].bpm) <= b

\* C13 (amended): the timestamps of consecutive beats never decrease,
\* ms(i) <= ms(i+1), and they strictly increase when a beat lasts more than
\* one millisecond at every tempo of the map (every BPM rounds to less than
\* 60000).
C13_NonDecreasingMs ==
    phase = "done" =>
        \A i \in 1..(Len(beats) - 1) :
            /\ beats[i].ms <= beats[i + 1].ms
            /\ AllBpmAtMost(59999) => beats[i].ms < beats[i + 1].ms

\* a grid over a tempo change that lies off the beat grid
C13_Witness ==
    /\ phase = "done"
    /\ Len(beats) >= 4
    /\ AllBpmAtMost(59999)
    /\ Len(RawTempos) = 2
    /\ RawTempos[1].ticks = 0
    /\ RawTempos[2].ticks = 720
    /\ MathRound(RawTempos[1].bpm) # MathRound(RawTempos[2].bpm)
    /\ beats[2].ms < beats[3].ms
    /\ beats[3].ms < beats[4].ms

\* the ticks of the notes of all tracks
NoteTicks ==
    UNION { { OrEmpty(midi.tracks[t].notes)[n].ticks :
                n \in 1..Len(OrEmpty(midi.tracks[t].notes)) } :
            t \in 1..Len(midi.tracks) }

\* C14 (as claimed): maxTick is the largest note tick over all tracks; the
\* duration gives maxTick, as ceil(duration * initialBpm * ppq / 60), only
\* when no track has a note, and never when a note exists, even when every
\* note is at tick 0.
C14_DurationOnlyWithoutNotes ==
    phase = "done" =>
        IF NoteTicks # {}
        THEN /\ maxTick \in NoteTicks
             /\ \A t \in NoteTicks : t <= maxTick
        ELSE IF midi.duration.present
        THEN maxTick = MathCeil(RatDiv(RatMul(midi.duration.value,
                                              RatOfInt(tempos[1].bpm * ppq)),
                                       RatOfInt(60)))
        ELSE maxTick = 0

HasDuplicateTick(raw) ==
    \E i, j \in 1..Len(raw) : i < j /\ raw[i].ticks = raw[j].ticks

\* whether `tick` is at or after a tick that several events of `raw` share
AfterDuplicate(raw, tick) ==
    \E i, j \in 1..Len(raw) : i < j /\ raw[i].ticks = raw[j].ticks /\ raw[i].ticks <= tick

\* the ticks where the tempo in force may change
TempoBreaks == {0} \cup { RawTempos[j].ticks : j \in 1..Len(RawTempos) }

\* the time of the stretches that start at the ticks of S and end at the
\* next tempo tick or at T, each at the BPM in force at its start
RECURSIVE SumStretches(_, _)
SumStretches(S, T) ==
    IF S = {} THEN Zero
    ELSE LET b == CHOOSE x \in S : \A y \in S : x <= y
             later == { y \in TempoBreaks : y > b }
             nxt == IF later = {} THEN T
                    ELSE Min(T, CHOOSE x \in later : \A y \in later : x <= y)
         IN  RatAdd(Rat((nxt - b) * 60, ActiveBpm(b) * ppq), SumStretches(S \ {b}, T))

\* the seconds from tick 0 to tick T when, of the events on one tick, the
\* last of the input list is in force and the others last no time
RefElapsed(T) == SumStretches({ b \in TempoBreaks : b < T }, T)

\* C15: when several tempo events (time-signature events) share a tick, the
\* last of them in the input list wins from that tick on: beats are timed
\* with its BPM, the earlier ones adding no time, and the tempo and the
\* numerator resolved for a beat, its annotation and its downbeat flag are
\* those of the last one.
C15_LastDuplicateWins ==
    phase = "done" =>
        \A i \in 1..Len(beats) :
            LET b == beats[i]
            IN  /\ AfterDuplicate(RawTempos, b.tick) =>
                      /\ getTempoAtTick(b.tick, tempos) = ActiveBpm(b.tick)
                      /\ b.tempoAtTick \in {0, ActiveBpm(b.tick)}
                      /\ ticksToSeconds(b.tick, tempos, ppq) = RefElapsed(b.tick)
                      /\ b.ms = MathRound(RatMul(RefElapsed(b.tick), RatOfInt(1000)))
                /\ AfterDuplicate(RawTimeSigs, b.tick) =>
                      /\ getTimeSigForTick(b.tick, timeSigs).numerator
                            = ActiveNumerator(b.tick)
                      /\ b.downbeat = 1 <=>
                            ((b.tick - LastChangeTick(b.tick)) \div ppq)
                                % ActiveNumerator(b.tick) = 0

\* a grid past two tempo events on tick 720 of different BPM and two
\* time-signature events on tick 1440 of different numerators
C15_Witness ==
    /\ phase = "done"
    /\ RawTempos = <<Tempo(720, 120), Tempo(720, 140)>>
    /\ RawTimeSigs = <<TimeSig(1440, 3, 4), TimeSig(1440, 4, 4)>>
    /\ \E i \in 1..Len(beats) :
          /\ AfterDuplicate(RawTempos, beats[i].tick)
          /\ AfterDuplicate(RawTimeSigs, beats[i].tick)
          /\ beats[i].tick > 1440
          /\ beats[i].tempoAtTick = 0
          /\ getTempoAtTick(beats[i].tick, tempos) = 140
          /\ getTimeSigForTick(beats[i].tick, timeSigs).numerator = 4

\* the BPM in force at `tick` exactly as the input supplies it
SuppliedBpm(tick) ==
    IF RawTempos = <<>> THEN RatOfInt(120)
    ELSE RawTempos[ActiveIdx(RawTempos, tick)].bpm

\* SumStretches with every stretch at 60 / bpm / ppq seconds per tick for
\* the supplied bpm
RECURSIVE SumSuppliedStretches(_, _)
SumSuppliedStretches(S, T) ==
    IF S = {} THEN Zero
    ELSE LET b == CHOOSE x \in S : \A y \in S : x <= y
             later == { y \in TempoBreaks : y > b }
             nxt == IF later = {} THEN T
                    ELSE Min(T, CHOOSE x \in later : \A y \in later : x <= y)
             secPerTick == RatDiv(RatDiv(RatOfInt(60), SuppliedBpm(b)), RatOfInt(ppq))
         IN  RatAdd(RatMul(RatOfInt(nxt - b), secPerTick),
                    SumSuppliedStretches(S \ {b}, T))

SuppliedElapsed(T) == SumSuppliedStretches({ b \in TempoBreaks : b < T }, T)

\* C22 (as claimed): rounding the BPM to the nearest integer affects only
\* the tempo annotation.  The elapsed time of each beat is integrated with
\* every tempo event's BPM exactly as supplied (seconds per tick is
\* 60 / bpm / ppq for the unrounded bpm) and then rounded to the millisecond;
\* the annotation of a beat is 0 or the rounded BPM in force.
C22_UnroundedIntegration ==
    phase = "done" =>
        \A i \in 1..Len(beats) :
            /\ beats[i].ms =
                   MathRound(RatMul(SuppliedElapsed(beats[i].tick), RatOfInt(1000)))
            /\ beats[i].tempoAtTick \in {0, ActiveBpm(beats[i].tick)}

\* C23: the integrator and the tempo lookup agree on which tempo is active.
\* For every normalized tempo sequence, duplicate ticks included, and every
\* tick t >= 0, one more tick adds the time of one tick at the tempo that
\* getTempoAtTick resolves for t:
\* ticksToSeconds(t + 1) - ticksToSeconds(t) = 60 / (getTempoAtTick(t) * ppq).
\* Checked under SpecTicks, t the tick of the call and tsSeconds its result.
C23_IntegratorAgreesWithLookup ==
    tsCalled =>
        ticksToSeconds(tsTick + 1, tsTempos, tsPpq) =
            RatAdd(tsSeconds, Rat(60, getTempoAtTick(tsTick, tsTempos) * tsPpq))

\* a call at the tick of a tempo change that two events share, where the
\* last of them differs from the one before and from the tempo before the
\* change
C23_Witness ==
    /\ tsCalled
    /\ Len(tsTempos) = 3
    /\ tsTempos[2].ticks = tsTick
    /\ tsTempos[3].ticks = tsTick
    /\ tsTick > 0
    /\ tsTempos[1].bpm = 140
    /\ tsTempos[2].bpm = 140
    /\ tsTempos[3].bpm = 120
    /\ getTempoAtTick(tsTick, tsTempos) = 120
    /\ tsSeconds # Zero

----------------------------------------------------------------------------
(* The page: formatSecondsFromMs, buildLua, handleParse and downloadXml.   *)
(*                                                                         *)
(* A JavaScript string is the sequence of its characters.  A file is       *)
(* [present, name, decodes, midi]: `decodes` tells whether new Midi(bytes) *)
(* returns, and `midi` is the object it returns then.                      *)

DigitChars == <<"0", "1", "2", "3", "4", "5", "6", "7", "8", "9">>

\* String(n) of a non-negative integer n
RECURSIVE Digits(_)
Digits(n) ==
    IF n < 10 THEN <<DigitChars[n + 1]>>
    ELSE Append(Digits(n \div 10), DigitChars[(n % 10) + 1])

\* line 98: (ms / 1000).toFixed(3), ms a non-negative integer
toFixed3(ms) ==
    Digits(ms \div 1000) \o <<".">> \o
    <<DigitChars[((ms % 1000) \div 100) + 1],
      DigitChars[((ms % 100) \div 10) + 1],
      DigitChars[(ms % 10) + 1]>>

RECURSIVE trailingZerosOf(_)
trailingZerosOf(s) ==
    IF s = <<>> \/ s[Len(s)] # "0" THEN 0
    ELSE 1 + trailingZerosOf(SubSeq(s, 1, Len(s) - 1))

\* line 99: s.replace(/\.?0+$/, ""): the leftmost match is the run of zeros
\* that ends the string, with the dot before it when there is one
trimZeros(s) ==
    LET z == trailingZerosOf(s)
        kept == Len(s) - z
    IN  IF z = 0 THEN s
        ELSE IF kept >= 1 /\ s[kept] = "." THEN SubSeq(s, 1, kept - 1)
        ELSE SubSeq(s, 1, kept)

\* lines 97-102
formatSecondsFromMs(ms) ==
    LET trimmed == trimZeros(toFixed3(ms))
    IN  IF trimmed = <<>> THEN <<"0">>
        ELSE IF Len(trimmed) >= 2 /\ trimmed[1] = "0" /\ trimmed[2] = "."
             THEN Tail(trimmed)
        ELSE trimmed

\* the /i flag of line 278, for the letters of the pattern
LowerCase(c) ==
    IF c = "M" THEN "m" ELSE IF c = "I" THEN "i" ELSE IF c = "D" THEN "d" ELSE c

EndsWithNoCase(s, suffix) ==
    /\ Len(s) >= Len(suffix)
    /\ \A i \in 1..Len(suffix) : LowerCase(s[Len(s) - Len(suffix) + i]) = suffix[i]

EndsWith(s, suffix) ==
    /\ Len(s) >= Len(suffix)
    /\ \A i \in 1..Len(suffix) : s[Len(s) - Len(suffix) + i] = suffix[i]

\* mutant: the pattern of line 278 without its /i flag
baseNameOfCaseSensitive(name) ==
    IF EndsWith(name, <<".", "m", "i", "d">>) THEN SubSeq(name, 1, Len(name) - 4)
    ELSE IF EndsWith(name, <<".", "m", "i", "d", "i">>) THEN SubSeq(name, 1, Len(name) - 5)
    ELSE name

\* line 278: file.name.replace(/\.(mid|midi)$/i, "")
baseNameOf(name) ==
    IF EndsWithNoCase(name, <<".", "m", "i", "d">>) THEN SubSeq(name, 1, Len(name) - 4)
    ELSE IF EndsWithNoCase(name, <<".", "m", "i", "d", "i">>) THEN SubSeq(name, 1, Len(name) - 5)
    ELSE name

\* mutant: the preview's slice(0, 200) applied to the rows themselves
allRowsOfPreview(bs) ==
    [i \in 1..Min(Len(bs), 200) |->
        [idx |-> i, seconds |-> formatSecondsFromMs(bs[i].ms),
         downbeat |-> bs[i].downbeat, tempoAtTick |-> bs[i].tempoAtTick,
         ms |-> bs[i].ms]]

\* lines 289-295: beats.map(...)
allRowsOf(bs) ==
    [i \in 1..Len(bs) |->
        [idx |-> i, seconds |-> formatSecondsFromMs(bs[i].ms),
         downbeat |-> bs[i].downbeat, tempoAtTick |-> bs[i].tempoAtTick,
         ms |-> bs[i].ms]]

\* line 195: baseFilename.replace(/"/g, '\\"')
RECURSIVE escapeQuotes(_)
escapeQuotes(s) ==
    IF s = <<>> THEN <<>>
    ELSE (IF Head(s) = "\"" THEN <<"\\", "\"">> ELSE <<Head(s)>>) \o escapeQuotes(Tail(s))

\* lines 202-207: the entry of the beat of index i - 1 among n beats
luaEntry(b, i, n) ==
    LET secStr == formatSecondsFromMs(b.ms)
        tempoVal == IF b.tempoAtTick # 0 THEN b.tempoAtTick ELSE 0
    IN  <<" ", " ", " ", " ", "{">> \o secStr \o <<",">> \o Digits(b.downbeat)
        \o <<",">> \o Digits(tempoVal) \o <<"}">>
        \o (IF i < n THEN <<",">> ELSE <<>>)

\* lines 194-216.  The text returned is firstLine + comment + start +
\* entries.join('\r\n') + endTable + luaTail, where comment, start, endTable
\* and luaTail are literals and firstLine is a literal around safeName; the
\* value here holds safeName and the entries, the parts that vary.
buildLua(bs, baseFilename) ==
    [safeName |-> escapeQuotes(baseFilename),
     entries |-> [i \in 1..Len(bs) |-> luaEntry(bs[i], i, Len(bs))]]

\* line 336: `${filename || "tempo-map"} Beat Importer.xml`
downloadNameOf(name) ==
    (IF name = <<>> THEN <<"t", "e", "m", "p", "o", "-", "m", "a", "p">> ELSE name)
    \o <<" ", "B", "e", "a", "t", " ", "I", "m", "p", "o", "r", "t", "e", "r", ".", "x", "m", "l">>

\* the files a user can choose: three MIDI files, of 5, 20 and 205 beats,
\* and a file that is not a MIDI file
UiMidis ==
    << MidiOf(<<0, 0>>, Absent, Absent, <<>>, [present |-> FALSE, value |-> Zero]),
       MidiOf(<<480, 0>>, Present(<<Tempo(0, 120), Tempo(1920, 140)>>),
              Present(<<TimeSig(0, 3, 4)>>), <<Notes(<<7680>>)>>,
              [present |-> TRUE, value |-> Rat(17, 1)]),
       MidiOf(<<0, 960>>, Present(<<[ticks |-> 0, bpm |-> Rat(279, 2)]>>), Absent,
              <<Notes(<<960 * 200>>)>>, [present |-> TRUE, value |-> Rat(87, 1)]) >>

MidiFile(name, m) == [present |-> TRUE, name |-> name, decodes |-> TRUE, midi |-> m]
UiFiles ==
    { MidiFile(<<"a", ".", "m", "i", "d">>, UiMidis[1]),
      MidiFile(<<"b", ".", "M", "I", "D", "I">>, UiMidis[2]),
      MidiFile(<<"l", "o", "n", "g", ".", "M", "i", "d">>, UiMidis[3]),
      [present |-> TRUE, name |-> <<"n", "o", "t", "e", "s", ".", "t", "x", "t">>, decodes |-> FALSE, midi |-> NoMidi] }

\* line 275: `Select a .mid file`; an error text is the sequence of its parts
SelectMessage == <<"Select a .mid file">>

\* what a catch clause can receive: an Error with a message, or the error
\* event FileReader hands to onerror (line 92), which has no `message`
LibraryError ==
    [hasMessage |-> TRUE,
     message |-> "Midi library failed to load. Please refresh the page."]
DecodeError == [hasMessage |-> TRUE, message |-> "Bad MIDI file"]
GeneratorError ==
    [hasMessage |-> TRUE, message |-> "Cannot read properties of undefined"]
ReadErrorEvent == [hasMessage |-> FALSE, message |-> ""]
\* the message of the failed read itself (fr.error.message)
ReadFailureMessage == "The requested file could not be read"

\* line 304: `Error: ${err.message}`; an undefined message prints "undefined"
errorTextOf(err) ==
    <<"Error: ", IF err.hasMessage THEN err.message ELSE "undefined">>

\* mutant: the file test of line 275 never fires
fileMissingNever(f) == FALSE

\* line 275: !file
fileMissing(f) == ~f.present

\* mutant: setParsing(false) as the last statement of the try block
parsingAfterTryOnly(threw) == threw

\* lines 305-307: finally { setParsing(false) }, whether or not the try
\* block threw
parsingAfter(threw) == FALSE

UiInit ==
    /\ UiConstructed
    /\ selected = NoFile
    /\ midiLoaded \in BOOLEAN
    /\ TicksUnused
    /\ PackUnused
    /\ midi = NoMidi
    /\ ppq = 0
    /\ tempos = <<>>
    /\ timeSigs = <<>>
    /\ maxTick = 0
    /\ beats = <<>>
    /\ phase = "page"

\* the user picks a file in the file input, or clears it
SelectFile ==
    /\ \E f \in UiFiles \cup {NoFile} :
          /\ f # selected
          /\ selected' = f
    /\ UNCHANGED <<midiLoaded, rows, filename, parsing, error, totalBeats, pending,
                   download, attempt, lastOk, tsVars, genVars, packVars>>

\* lines 272-286: a click on Parse (enabled while parsing is false, line
\* 373) runs handleParse up to its return, its await or its throw
HandleParse ==
    /\ ~parsing
    /\ IF fileMissing(selected)
       THEN /\ error' = SelectMessage
            /\ attempt' = [kind |-> "nofile", message |-> "", generated |-> FALSE]
            /\ UNCHANGED <<rows, filename, parsing, pending>>
       ELSE /\ rows' = <<>>
            /\ filename' = baseNameOf(selected.name)
            /\ IF ~midiLoaded
               THEN /\ error' = errorTextOf(LibraryError)
                    /\ parsing' = parsingAfter(TRUE)
                    /\ pending' = NoFile
                    /\ attempt' = [kind |-> "nolib", message |-> LibraryError.message,
                                   generated |-> FALSE]
               ELSE /\ error' = <<>>
                    /\ parsing' = TRUE
                    /\ pending' = selected
                    /\ attempt' = [kind |-> "reading", message |-> "",
                                   generated |-> FALSE]
    /\ UNCHANGED <<selected, midiLoaded, totalBeats, download, lastOk,
                   tsVars, genVars, packVars>>

\* lines 285-298, 302-307: the read completes (fr.onload) and handleParse
\* resumes: decode, generate, set the rows, or catch what was thrown
ReadResolved ==
    /\ pending.present
    /\ parsing' = parsingAfter(~pending.decodes \/ generateBeatListThrows(pending.midi))
    /\ pending' = NoFile
    /\ IF ~pending.decodes
       THEN /\ error' = errorTextOf(DecodeError)
            /\ attempt' = [kind |-> "decode", message |-> DecodeError.message,
                           generated |-> FALSE]
            /\ UNCHANGED <<rows, totalBeats, lastOk, genVars>>
       ELSE IF generateBeatListThrows(pending.midi)
       THEN /\ error' = errorTextOf(GeneratorError)
            /\ attempt' = [kind |-> "generator", message |-> GeneratorError.message,
                           generated |-> TRUE]
            /\ UNCHANGED <<rows, totalBeats, lastOk, genVars>>
       ELSE LET generated == generateBeatList(pending.midi)
                allRows == allRowsOf(generated)
            IN  /\ midi' = pending.midi
                /\ ppq' = ppqOf(pending.midi)
                /\ tempos' = temposOf(pending.midi)
                /\ timeSigs' = timeSigsOf(pending.midi)
                /\ maxTick' = maxTickOf(pending.midi, temposOf(pending.midi),
                                        ppqOf(pending.midi))
                /\ beats' = generated
                /\ rows' = allRows
                /\ totalBeats' = Len(allRows)
                /\ lastOk' = [present |-> TRUE, rows |-> allRows, filename |-> filename,
                              totalBeats |-> Len(allRows), source |-> pending.name]
                /\ attempt' = [kind |-> "ok", message |-> "", generated |-> TRUE]
                /\ UNCHANGED <<error, phase>>
    /\ UNCHANGED <<selected, midiLoaded, filename, download, tsVars, packVars>>

\* lines 92, 302-307: the read fails (fr.onerror = rej), handleParse resumes
\* in its catch clause with the error event
ReadRejected ==
    /\ pending.present
    /\ parsing' = parsingAfter(TRUE)
    /\ pending' = NoFile
    /\ error' = errorTextOf(ReadErrorEvent)
    /\ attempt' = [kind |-> "read", message |-> ReadFailureMessage, generated |-> FALSE]
    /\ UNCHANGED <<selected, midiLoaded, rows, filename, totalBeats, download, lastOk,
                   tsVars, genVars, packVars>>

\* lines 310-348: a click on Download (enabled while rows is not empty,
\* line 380).  The file handed to the browser is named after `filename` and
\* holds the XML around the base64 blocks of buildLua(beats, filename).
DownloadXml ==
    /\ rows # <<>>
    /\ LET bs == [i \in 1..Len(rows) |->
                    [ms |-> rows[i].ms, downbeat |-> rows[i].downbeat,
                     tempoAtTick |-> rows[i].tempoAtTick]]
           lua == buildLua(bs, filename)
       IN  download' = [present |-> TRUE, name |-> downloadNameOf(filename),
                        safeName |-> lua.safeName, entries |-> lua.entries]
    /\ UNCHANGED <<selected, midiLoaded, rows, filename, parsing, error, totalBeats,
                   pending, attempt, lastOk, tsVars, genVars, packVars>>

UiNext == SelectFile \/ HandleParse \/ ReadResolved \/ ReadRejected \/ DownloadXml

SpecUI == UiInit /\ [][UiNext]_vars

\* the page when every read that readAsArrayBuffer starts (lines 88-95)
\* ends: the FileReader fires onload or onerror, and the continuation of
\* handleParse then runs
SpecUIFair == SpecUI /\ WF_vars(ReadRejected \/ ReadResolved)

----------------------------------------------------------------------------
(* Claims about the page, checked under SpecUI.                            *)

\* C16 (as claimed): a failed conversion leaves prior results untouched.
\* When a parse of a selected file has failed in the read, the decode or the
\* generator after an earlier parse succeeded, rows, totalBeats and filename
\* hold the values of that earlier parse, and an error message is set.
C16_FailureKeepsPriorResults ==
    (attempt.kind \in {"read", "decode", "generator"} /\ lastOk.present) =>
        /\ rows = lastOk.rows
        /\ totalBeats = lastOk.totalBeats
        /\ filename = lastOk.filename
        /\ error # <<>>

\* C17: a handleParse call with no file selected sets the error to
\* 'Select a .mid file' and does nothing else: no read is started, nothing
\* is decoded or generated, and rows, filename, totalBeats and parsing are
\* unchanged.
C17_NoFileOnlySetsError ==
    [][(HandleParse /\ ~selected.present) =>
          /\ error' = SelectMessage
          /\ ~attempt'.generated
          /\ UNCHANGED <<rows, filename, totalBeats, parsing, pending, download,
                         lastOk, genVars>>]_vars

\* Parse was clicked without a file while the rows of an earlier parse are
\* on the page
C17_Witness ==
    /\ attempt.kind = "nofile"
    /\ ~selected.present
    /\ error = SelectMessage
    /\ rows # <<>>
    /\ totalBeats = Len(rows)
    /\ filename # <<>>
    /\ ~parsing

\* C18 (as claimed): when the file read or the decoder fails inside
\* handleParse, generateBeatList is not invoked for that attempt, the error
\* is 'Error: ' followed by the message of the failure, and rows is not
\* populated from that attempt.
C18_ReadOrDecodeFailure ==
    attempt.kind \in {"read", "decode"} =>
        /\ ~attempt.generated
        /\ error = <<"Error: ", attempt.message>>
        /\ rows = <<>>

\* the index of the first c in s, 0 when s has none
FirstIndexOf(s, c) ==
    IF \E i \in 1..Len(s) : s[i] = c
    THEN CHOOSE i \in 1..Len(s) : s[i] = c /\ \A j \in 1..(i - 1) : s[j] # c
    ELSE 0

IsDigits(s) == \A i \in 1..Len(s) : \E d \in 0..9 : s[i] = DigitChars[d + 1]

\* the number that a sequence of decimal digits writes (0 for none)
RECURSIVE NumberOf(_)
NumberOf(s) ==
    IF s = <<>> THEN 0
    ELSE 10 * NumberOf(SubSeq(s, 1, Len(s) - 1))
         + (CHOOSE d \in 0..9 : s[Len(s)] = DigitChars[d + 1])

\* a Lua numeral with at most three decimals, such as 12, .5 or 3.25, read
\* as milliseconds; `ok` tells whether it is such a numeral
ReadNumeral(s) ==
    LET dot == FirstIndexOf(s, ".")
        whole == IF dot = 0 THEN s ELSE SubSeq(s, 1, dot - 1)
        frac == IF dot = 0 THEN <<>> ELSE SubSeq(s, dot + 1, Len(s))
        padded == frac \o [i \in 1..(3 - Len(frac)) |-> "0"]
        ok == /\ IsDigits(whole) /\ IsDigits(frac) /\ Len(frac) <= 3
              /\ (IF dot = 0 THEN whole # <<>> ELSE frac # <<>>)
    IN  [ok |-> ok, ms |-> IF ok THEN NumberOf(whole) * 1000 + NumberOf(padded) ELSE 0]

\* a line `    {seconds,downbeat,tempo}` or `    {seconds,downbeat,tempo},`
\* of the beat table, read back
ReadRow(e) ==
    LET close == FirstIndexOf(e, "}")
        inside == SubSeq(e, 6, close - 1)
        c1 == FirstIndexOf(inside, ",")
        rest == SubSeq(inside, c1 + 1, Len(inside))
        c2 == FirstIndexOf(rest, ",")
        f1 == SubSeq(inside, 1, c1 - 1)
        f2 == SubSeq(rest, 1, c2 - 1)
        f3 == SubSeq(rest, c2 + 1, Len(rest))
        after == SubSeq(e, close + 1, Len(e))
        ok == /\ Len(e) >= 6
              /\ SubSeq(e, 1, 5) = <<" ", " ", " ", " ", "{">>
              /\ close > 6 /\ c1 > 1 /\ c2 > 1
              /\ ReadNumeral(f1).ok
              /\ f2 # <<>> /\ IsDigits(f2)
              /\ f3 # <<>> /\ IsDigits(f3)
              /\ after \in {<<>>, <<",">>}
    IN  [ok |-> ok,
         ms |-> IF ok THEN ReadNumeral(f1).ms ELSE 0,
         downbeat |-> IF ok THEN NumberOf(f2) ELSE 0,
         tempo |-> IF ok THEN NumberOf(f3) ELSE 0,
         comma |-> ok /\ after = <<",">>]

\* C20: the exported beat table has exactly one row {seconds, downbeat,
\* tempoOrZero} per beat that generateBeatList returned for the last
\* successful parse, in the same order, with the beat's time, downbeat flag
\* and tempo annotation, all beats included, and every row but the last is
\* followed by a comma.
C20_TableRowsAreTheBeats ==
    [][DownloadXml =>
          /\ download'.present
          /\ Len(download'.entries) = Len(beats)
          /\ \A i \in 1..Len(beats) :
                LET row == ReadRow(download'.entries[i])
                IN  /\ row.ok
                    /\ row.ms = beats[i].ms
                    /\ row.downbeat = beats[i].downbeat
                    /\ row.tempo = beats[i].tempoAtTick
                    /\ row.comma <=> i < Len(beats)]_vars

\* a table of more than 200 rows has been exported
C20_Witness ==
    /\ download.present
    /\ attempt.kind = "ok"
    /\ Len(beats) > 200
    /\ Len(rows) = Len(beats)
    /\ Len(download.entries) = Len(beats)
    /\ ReadRow(download.entries[201]).ms = beats[201].ms
    /\ ~ReadRow(download.entries[Len(beats)]).comma

\* whether `b` is the base name of the file name `name`: the name without
\* its extension .mid or .midi (in any letter case), else the whole name
IsBaseNameOf(b, name) ==
    LET exts == { e \in {<<".", "m", "i", "d">>, <<".", "m", "i", "d", "i">>} :
                    EndsWithNoCase(name, e) }
    IN  IF exts = {} THEN b = name
        ELSE \E e \in exts : /\ Len(b) + Len(e) = Len(name)
                             /\ b = SubSeq(name, 1, Len(b))

\* the rows of the table that a parse of the file `f` produces
RowsOfFile(f) == allRowsOf(generateBeatList(f.midi))

\* C24: under every interleaving of Parse clicks (possible only while
\* parsing is false), Download clicks, file-selection changes and the
\* completion or failure of a pending read: whenever rows is not empty,
\* rows are the rows of the file whose parse set them, filename is the base
\* name of that file, and totalBeats is the number of rows; and a file that
\* has been exported carries one file's name and that same file's beats.
C24_RowsBelongToFilename ==
    /\ rows # <<>> =>
          /\ lastOk.present
          /\ \E f \in UiFiles :
                /\ f.decodes
                /\ f.name = lastOk.source
                /\ IsBaseNameOf(filename, f.name)
                /\ rows = RowsOfFile(f)
          /\ totalBeats = Len(rows)
    /\ download.present =>
          \E f \in UiFiles :
              /\ f.decodes
              /\ \E b \in {SubSeq(f.name, 1, k) : k \in 0..Len(f.name)} :
                    /\ IsBaseNameOf(b, f.name)
                    /\ download.name = downloadNameOf(b)
                    /\ download.safeName = escapeQuotes(b)
              /\ LET fileRows == RowsOfFile(f)
                 IN  /\ Len(download.entries) = Len(fileRows)
                     /\ \A i \in 1..Len(fileRows) :
                           ReadRow(download.entries[i]).ms = fileRows[i].ms

\* the rows of b.MIDI are on the page under the name "b" and have been
\* exported, after a parse during or after which another file was selected
C24_Witness ==
    /\ rows # <<>>
    /\ attempt.kind = "ok"
    /\ lastOk.source = <<"b", ".", "M", "I", "D", "I">>
    /\ filename = <<"b">>
    /\ selected.present
    /\ selected.name = <<"a", ".", "m", "i", "d">>
    /\ download.present
    /\ download.name = downloadNameOf(<<"b">>)
    /\ totalBeats = 20

\* C25: every parse attempt that sets parsing to true sets it back to
\* false, whether the read, the decode and the beat generation succeed or
\* one of them fails, given that a pending read completes or errors; and
\* parsing is never left true once handleParse has finished: parsing is true
\* only while handleParse is suspended at its pending read.  Checked under
\* SpecUIFair.
C25_ParsingEventuallyCleared ==
    /\ [](parsing => pending.present)
    /\ (parsing ~> ~parsing)

\* an attempt that set parsing to true has ended in the catch clause, its
\* file not being a MIDI file, and parsing is false again
C25_Witness ==
    /\ attempt.kind = "decode"
    /\ attempt.message = DecodeError.message
    /\ error = errorTextOf(DecodeError)
    /\ ~parsing
    /\ ~pending.present
    /\ rows = <<>>

----------------------------------------------------------------------------
(* The packaging functions base64EncodeUnicode, splitLuaIntoBase64Blocks   *)
(* and buildXmlWithLuaBase64.  Here a JavaScript string is the sequence of *)
(* its UTF-16 code units (numbers), a byte array a sequence of numbers     *)
(* 0..255, and a base64 text a sequence of characters.                     *)

CR == 13
LF == 10

\* str.replace(/\r?\n/g, "\r\n") (lines 219, 232)
RECURSIVE normalizeLineEndings(_)
normalizeLineEndings(s) ==
    IF s = <<>> THEN <<>>
    ELSE IF Len(s) >= 2 /\ s[1] = CR /\ s[2] = LF
         THEN <<CR, LF>> \o normalizeLineEndings(SubSeq(s, 3, Len(s)))
    ELSE IF s[1] = LF THEN <<CR, LF>> \o normalizeLineEndings(Tail(s))
    ELSE <<s[1]>> \o normalizeLineEndings(Tail(s))

IsHighSurrogate(u) == u >= 55296 /\ u <= 56319
IsLowSurrogate(u) == u >= 56320 /\ u <= 57343

\* the UTF-8 bytes of a code point
utf8OfCodePoint(cp) ==
    IF cp < 128 THEN <<cp>>
    ELSE IF cp < 2048 THEN <<192 + (cp \div 64), 128 + (cp % 64)>>
    ELSE IF cp < 65536
         THEN <<224 + (cp \div 4096), 128 + ((cp \div 64) % 64), 128 + (cp % 64)>>
    ELSE <<240 + (cp \div 262144), 128 + ((cp \div 4096) % 64),
           128 + ((cp \div 64) % 64), 128 + (cp % 64)>>

\* line 221: new TextEncoder().encode(str); a surrogate pair is one code
\* point, a surrogate without its partner is encoded as U+FFFD
RECURSIVE utf8Encode(_)
utf8Encode(s) ==
    IF s = <<>> THEN <<>>
    ELSE IF IsHighSurrogate(s[1]) /\ Len(s) >= 2 /\ IsLowSurrogate(s[2])
         THEN utf8OfCodePoint(65536 + (s[1] - 55296) * 1024 + (s[2] - 56320))
              \o utf8Encode(SubSeq(s, 3, Len(s)))
    ELSE IF IsHighSurrogate(s[1]) \/ IsLowSurrogate(s[1])
         THEN utf8OfCodePoint(65533) \o utf8Encode(Tail(s))
    ELSE utf8OfCodePoint(s[1]) \o utf8Encode(Tail(s))

Base64Alphabet ==
    <<"A", "B", "C", "D", "E", "F", "G", "H", "I", "J", "K", "L", "M", "N", "O", "P",
      "Q", "R", "S", "T", "U", "V", "W", "X", "Y", "Z", "a", "b", "c", "d", "e", "f",
      "g", "h", "i", "j", "k", "l", "m", "n", "o", "p", "q", "r", "s", "t", "u", "v",
      "w", "x", "y", "z", "0", "1", "2", "3", "4", "5", "6", "7", "8", "9", "+", "/">>

\* line 228: btoa(binary), binary the string of the bytes
RECURSIVE btoa(_)
btoa(bytes) ==
    IF bytes = <<>> THEN <<>>
    ELSE IF Len(bytes) = 1
         THEN <<Base64Alphabet[(bytes[1] \div 4) + 1],
                Base64Alphabet[((bytes[1] % 4) * 16) + 1], "=", "=">>
    ELSE IF Len(bytes) = 2
         THEN <<Base64Alphabet[(bytes[1] \div 4) + 1],
                Base64Alphabet[((bytes[1] % 4) * 16 + (bytes[2] \div 16)) + 1],
                Base64Alphabet[((bytes[2] % 16) * 4) + 1], "=">>
    ELSE <<Base64Alphabet[(bytes[1] \div 4) + 1],
           Base64Alphabet[((bytes[1] % 4) * 16 + (bytes[2] \div 16)) + 1],
           Base64Alphabet[((bytes[2] % 16) * 4 + (bytes[3] \div 64)) + 1],
           Base64Alphabet[(bytes[3] % 64) + 1]>>
         \o btoa(SubSeq(bytes, 4, Len(bytes)))

\* lines 218-229
base64EncodeUnicode(str) == btoa(utf8Encode(normalizeLineEndings(str)))

\* lines 234-239: the blocks of the chunks that start at index i (0-based)
RECURSIVE blocksFrom(_, _, _)
blocksFrom(i, str, size) ==
    IF i >= Len(str) THEN <<>>
    ELSE LET chunk == SubSeq(str, i + 1, Min(i + size, Len(str)))
         IN  <<base64EncodeUnicode(chunk)>> \o blocksFrom(i + size, str, size)

\* lines 231-242
splitLuaIntoBase64Blocks(str, size) ==
    blocksFrom(0, normalizeLineEndings(str), size)

\* line 245: blocks.reduce((sum, block) => sum + block.length, 0)
RECURSIVE totalSizeOf(_)
totalSizeOf(bs) ==
    IF bs = <<>> THEN 0 ELSE Len(Head(bs)) + totalSizeOf(Tail(bs))

\* line 246: (baseFilename || "Untitled") + " Beat Importer"
pluginNameOf(name) ==
    (IF name = <<>> THEN <<"U", "n", "t", "i", "t", "l", "e", "d">> ELSE name)
    \o <<" ", "B", "e", "a", "t", " ", "I", "m", "p", "o", "r", "t", "e", "r">>

\* lines 244-262: the document, as the Name attribute of UserPlugin, the
\* Size attribute of FileContent and the Block elements inside FileContent
\* in document order, each with its Base64 attribute (lines 248-251); the
\* fixed text around them is not carried
buildXmlWithLuaBase64(bs, baseFilename) ==
    [present |-> TRUE,
     name |-> pluginNameOf(baseFilename),
     size |-> totalSizeOf(bs),
     blockElements |-> [k \in 1..Len(bs) |-> [Base64 |-> bs[k]]]]

MaxLuaLength == 3    \* code units of an input string
MaxChunkSize == 3    \* largest chunk size

\* the code units of the input strings: a, e-acute, CR, LF and the two
\* halves of the surrogate pair of U+1F600
PackUnits == {97, 233, CR, LF, 55357, 56832}
PackStrings == SeqsUpTo(PackUnits, MaxLuaLength)

PackInit ==
    /\ luaString \in PackStrings
    /\ chunkSize \in 1..MaxChunkSize
    /\ blocks = <<>>
    /\ packed = FALSE
    /\ xml = NoXml
    /\ TicksUnused
    /\ UiUnused
    /\ midi = NoMidi
    /\ ppq = 0
    /\ tempos = <<>>
    /\ timeSigs = <<>>
    /\ maxTick = 0
    /\ beats = <<>>
    /\ phase = "pack"

\* one call splitLuaIntoBase64Blocks(luaString, chunkSize)
SplitLuaIntoBase64Blocks ==
    /\ ~packed
    /\ blocks' = splitLuaIntoBase64Blocks(luaString, chunkSize)
    /\ packed' = TRUE
    /\ UNCHANGED <<luaString, chunkSize, xml, tsVars, genVars, uiVars>>

\* the base names buildXmlWithLuaBase64 is given: none, and a name
PackNames == {<<>>, <<"a">>}

\* one call buildXmlWithLuaBase64(blocks, baseFilename) on the blocks that
\* splitLuaIntoBase64Blocks returned (lines 325 and 329)
BuildXmlWithLuaBase64 ==
    /\ packed
    /\ ~xml.present
    /\ \E baseFilename \in PackNames :
          xml' = buildXmlWithLuaBase64(blocks, baseFilename)
    /\ UNCHANGED <<luaString, chunkSize, blocks, packed, tsVars, genVars, uiVars>>

PackNext == SplitLuaIntoBase64Blocks \/ BuildXmlWithLuaBase64

SpecPack == PackInit /\ [][PackNext]_vars

----------------------------------------------------------------------------
(* Claims about the packaging functions, checked under SpecPack.  Blocks   *)
(* are read back with a base64 decoder and a UTF-8 decoder written here.   *)

SextetOf(c) == (CHOOSE k \in 1..64 : Base64Alphabet[k] = c) - 1

\* the bytes a base64 text stands for (atob)
RECURSIVE Base64Decode(_)
Base64Decode(t) ==
    IF Len(t) < 4 THEN <<>>
    ELSE LET a == SextetOf(t[1])
             b == SextetOf(t[2])
             first == <<a * 4 + (b \div 16)>>
             second == IF t[3] = "=" THEN <<>>
                       ELSE <<(b % 16) * 16 + (SextetOf(t[3]) \div 4)>>
             third == IF t[3] = "=" \/ t[4] = "=" THEN <<>>
                      ELSE <<(SextetOf(t[3]) % 4) * 64 + SextetOf(t[4])>>
         IN  first \o second \o third \o Base64Decode(SubSeq(t, 5, Len(t)))

\* the code units of a code point
UnitsOfCodePoint(cp) ==
    IF cp < 65536 THEN <<cp>>
    ELSE <<55296 + ((cp - 65536) \div 1024), 56320 + ((cp - 65536) % 1024)>>

\* the string that well-formed UTF-8 bytes stand for
RECURSIVE Utf8Decode(_)
Utf8Decode(bytes) ==
    IF bytes = <<>> THEN <<>>
    ELSE IF bytes[1] < 128
         THEN <<bytes[1]>> \o Utf8Decode(Tail(bytes))
    ELSE IF bytes[1] < 224
         THEN UnitsOfCodePoint((bytes[1] - 192) * 64 + (bytes[2] - 128))
              \o Utf8Decode(SubSeq(bytes, 3, Len(bytes)))
    ELSE IF bytes[1] < 240
         THEN UnitsOfCodePoint((bytes[1] - 224) * 4096 + (bytes[2] - 128) * 64
                               + (bytes[3] - 128))
              \o Utf8Decode(SubSeq(bytes, 4, Len(bytes)))
    ELSE UnitsOfCodePoint((bytes[1] - 240) * 262144 + (bytes[2] - 128) * 4096
                          + (bytes[3] - 128) * 64 + (bytes[4] - 128))
         \o Utf8Decode(SubSeq(bytes, 5, Len(bytes)))

\* the blocks decoded one by one and concatenated in order
RECURSIVE DecodeBlocks(_)
DecodeBlocks(bs) ==
    IF bs = <<>> THEN <<>>
    ELSE Utf8Decode(Base64Decode(Head(bs))) \o DecodeBlocks(Tail(bs))

\* C19 (as claimed): for every string and every chunk size >= 1, decoding
\* each block of splitLuaIntoBase64Blocks and concatenating the results in
\* order gives the string back exactly.
C19_ChunkRoundTrip ==
    packed => DecodeBlocks(blocks) = luaString

\* the normalised text and its k-th fixed-size substring (k from 1)
NormalizedText == normalizeLineEndings(luaString)
ChunkOf(k) ==
    SubSeq(NormalizedText, (k - 1) * chunkSize + 1,
           Min(k * chunkSize, Len(NormalizedText)))

\* the lengths of the Base64 attributes of the first k Block elements, summed
RECURSIVE SumOfBlockLengths(_, _)
SumOfBlockLengths(els, k) ==
    IF k = 0 THEN 0 ELSE Len(els[k].Base64) + SumOfBlockLengths(els, k - 1)

\* the characters a block encodes: what a reader of the block decodes
EncodedCharacters(block) == Utf8Decode(Base64Decode(block))

\* C21 (as claimed): the document has exactly one Block element per encoded
\* chunk, in chunk order; the Size attribute of FileContent is the sum of
\* the lengths of the base64 chunks; the number of chunks is
\* ceil(length(normalised text) / chunkSize); and every chunk but the last
\* encodes exactly chunkSize characters.
C21_OneBlockPerChunk ==
    xml.present =>
        LET els == xml.blockElements
        IN  /\ Len(els) = MathCeil(Rat(Len(NormalizedText), chunkSize))
            /\ \A k \in 1..Len(els) :
                   els[k].Base64 = base64EncodeUnicode(ChunkOf(k))
            /\ xml.size = SumOfBlockLengths(els, Len(els))
            /\ \A k \in 1..(Len(els) - 1) :
                   Len(EncodedCharacters(els[k].Base64)) = chunkSize

====
